---- MODULE Spec2Model ----
(***************************************************************************)
(* apply_integration.py: a one-shot patcher of two application files.      *)
(*                                                                         *)
(* File text is modelled as a sequence of tokens.  A token is a fragment   *)
(* of text that the script's patterns treat as a unit:                     *)
(*   "nl", "cr"                 the characters \n and \r                   *)
(*   "sp2" .. "sp10"            runs of 2 .. 10 spaces                     *)
(*   "ffComment"   <!-- Format Factory Styles -->                          *)
(*   "ffLink"      <link rel="stylesheet" href="css/format-factory.css?v=1"> *)
(*   "ffLinkV2"    the same link with ?v=2 (a drifted anchor)              *)
(*   "tabScript"   <script src="js/tab-manager.js?v=5"></script>           *)
(*   "tabScriptV6" the same tag with ?v=6 (a drifted anchor)               *)
(*   "trimStylesComment"  <!-- Trimmer Styles -->                          *)
(*   "trimCssLink" <link rel="stylesheet" href="css/trimmer.css?v=1">      *)
(*   "trimCssNote" <!-- TODO: add css/trimmer.css -->                      *)
(*   "trimCompComment" <!-- Trimmer Components (load BEFORE ...) -->       *)
(*   "videoScript" <script src="js/trimmer/video-trimmer.js?v=1"></script> *)
(*   "audioScript" <script src="js/trimmer/audio-trimmer.js?v=1"></script> *)
(*   "modalScript" <script src="js/trimmer/trimmer-modal.js?v=1"></script> *)
(*   "videoNote"   <!-- TODO: js/trimmer/video-trimmer.js -->              *)
(*   "destruct"    const { id, filePath, outputFormat, outputType,         *)
(*                 settings, outputFolder } = job;                         *)
(*   "destructV2"  const { id, filePath, outputFormat, settings } = job;   *)
(*   "destructTrim" const { id, ..., outputFolder, trimStart, trimEnd }    *)
(*                 = job;                                                  *)
(*   "logOpen"     console.log('[FFmpeg Handler] Starting conversion:', {  *)
(*   "logId" id,   "logInput" input: filePath,                             *)
(*   "logFormat" format: outputFormat,   "logType" type: outputType        *)
(*   "logTypeV2"   kind: outputType  (a drifted anchor)                    *)
(*   "comma" ,     "logClose" });                                          *)
(*   "logTrim"     trim: trimStart !== undefined ?                         *)
(*                 `${trimStart}s - ${trimEnd}s` : 'none'                  *)
(*   "cmdCtor"     const command = ffmpeg(filePath);                       *)
(*   "applyConvComment"   // Apply conversion settings                     *)
(*   "applyConvV2" // Apply settings  (a drifted anchor)                   *)
(*   "trimComment" // Apply trim settings if specified (MUST be set        *)
(*                 before codec settings)                                  *)
(*   "trimIf"      if (trimStart !== undefined && trimEnd !== undefined) { *)
(*   "trimLog"     console.log(`[FFmpeg Handler] Applying trim:            *)
(*                 ${trimStart}s to ${trimEnd}s`);                         *)
(*   "trimSsComment" // -ss: start time, -to: end time (both in seconds)   *)
(*   "trimSetStart"  command.setStartTime(trimStart);                      *)
(*   "trimDuration"  command.duration(trimEnd - trimStart);                *)
(*   "trimEndIf"   }                                                       *)
(*   any other token: a line of text that holds no marker and no anchor    *)
(***************************************************************************)
EXTENDS Integers, Sequences, FiniteSets, TLC

VARIABLES
    baseExists,       \* os.path.exists(base_dir)
    htmlFile,         \* src/renderer/index.html on disk
    ffmpegFile,       \* src/main/ffmpeg-handler.js on disk
    pc,               \* position of the running process
    content,          \* local `content` of the patcher that is running
    modified,         \* local `modified` of the patcher that is running
    html_modified,    \* main's html_modified
    ffmpeg_modified,  \* main's ffmpeg_modified
    exitStatus,       \* process exit status, -1 while running
    output,           \* the summary or error line printed
    io,               \* file accesses of this run, in order
    applied,          \* rules whose re.sub changed `content` in this run
    hist              \* the disk at the start of each run, and how the run before ended

vars == <<baseExists, htmlFile, ffmpegFile, pc, content, modified, html_modified,
          ffmpeg_modified, exitStatus, output, io, applied, hist>>

\* Number of times the tool is run in a row.
MaxRuns == 2

----------------------------------------------------------------------------
(* Text helpers *)

\* What Python's \s matches.
Whitespace == {"nl", "cr", "sp2", "sp4", "sp6", "sp8", "sp10"}

\* The tokens whose text holds the given marker substring.
TokensWith(marker) ==
    CASE marker = "trimmer.css" -> {"trimCssLink", "trimCssNote"}
      [] marker = "trimmer/video-trimmer.js" -> {"videoScript", "videoNote"}
      [] marker = "trimStart, trimEnd" -> {"destructTrim"}
      [] marker = "trim:" -> {"logTrim", "trimLog"}
      [] marker = "Apply trim settings" -> {"trimComment"}

\* `marker in content`
In(marker, c) == \E i \in 1..Len(c) : c[i] \in TokensWith(marker)

\* open(path, 'r', encoding='utf-8').read(): universal newlines, \r\n and \r become \n.
RECURSIVE Translate(_, _)
Translate(f, i) ==
    IF i > Len(f) THEN <<>>
    ELSE IF f[i] = "cr"
         THEN IF i < Len(f) /\ f[i + 1] = "nl"
              THEN <<"nl">> \o Translate(f, i + 2)
              ELSE <<"nl">> \o Translate(f, i + 1)
         ELSE <<f[i]>> \o Translate(f, i + 1)

read_file(f) == Translate(f, 1)

\* open(path, 'w', encoding='utf-8', newline='').write(content): no translation.
write_file(c) == c

----------------------------------------------------------------------------
(* re.sub over token sequences.  A pattern is a sequence of tokens, "\\s*"  *)
(* standing for a greedy run of whitespace; a group is a range of pattern   *)
(* elements; a template is a sequence of tokens and group references.       *)

RECURSIVE SkipWs(_, _)
SkipWs(c, i) == IF i <= Len(c) /\ c[i] \in Whitespace THEN SkipWs(c, i + 1) ELSE i

\* The start position of each pattern element from k on and the end of the
\* match, when pat[k..] matches c at i; <<>> when it does not.
RECURSIVE MatchFrom(_, _, _, _)
MatchFrom(pat, c, i, k) ==
    IF k > Len(pat) THEN <<i>>
    ELSE LET j == IF pat[k] = "\\s*" THEN SkipWs(c, i)
                  ELSE IF i <= Len(c) /\ c[i] = pat[k] THEN i + 1 ELSE 0
             rest == IF j = 0 THEN <<>> ELSE MatchFrom(pat, c, j, k + 1)
         IN IF rest = <<>> THEN <<>> ELSE <<i>> \o rest

\* re.search(pat, c) is not None
Matches(pat, c) == \E i \in 1..Len(c) : MatchFrom(pat, c, i, 1) # <<>>

GroupRefs == {"\\1", "\\2"}
GroupNo(ref) == IF ref = "\\1" THEN 1 ELSE 2

\* The template with its group references replaced by the text they matched.
RECURSIVE Expand(_, _, _, _, _)
Expand(tpl, groups, c, m, k) ==
    IF k > Len(tpl) THEN <<>>
    ELSE (IF tpl[k] \in GroupRefs
          THEN LET g == groups[GroupNo(tpl[k])]
               IN SubSeq(c, m[g[1]], m[g[2] + 1] - 1)
          ELSE <<tpl[k]>>) \o Expand(tpl, groups, c, m, k + 1)

RECURSIVE SubFrom(_, _, _, _, _)
SubFrom(pat, groups, tpl, c, i) ==
    IF i > Len(c) THEN <<>>
    ELSE LET m == MatchFrom(pat, c, i, 1)
         IN IF m # <<>>
            THEN Expand(tpl, groups, c, m, 1) \o SubFrom(pat, groups, tpl, c, m[Len(pat) + 1])
            ELSE <<c[i]>> \o SubFrom(pat, groups, tpl, c, i + 1)

\* A re.sub that adds the replacement at the end of the text when nothing matches.
ReSubAppend(pat, groups, tpl, c) ==
    IF Matches(pat, c) THEN SubFrom(pat, groups, tpl, c, 1)
    ELSE c \o SelectSeq(tpl, LAMBDA t : t \notin GroupRefs)

\* re.sub(pat, tpl, c): every non-overlapping match replaced, left to right.
ReSub(pat, groups, tpl, c) == SubFrom(pat, groups, tpl, c, 1)

----------------------------------------------------------------------------
(* The five patch rules: marker, search pattern, groups, replacement. *)

CssRule ==
    [id |-> "css", marker |-> "trimmer.css",
     pat |-> <<"ffComment", "\\s*", "ffLink">>,
     groups |-> << <<1, 3>> >>,
     tpl |-> <<"\\1", "nl", "sp2", "trimStylesComment", "nl", "sp2", "trimCssLink">>]

ScriptsRule ==
    [id |-> "scripts", marker |-> "trimmer/video-trimmer.js",
     pat |-> <<"tabScript">>,
     groups |-> << <<1, 1>> >>,
     tpl |-> <<"\\1", "nl", "sp2", "trimCompComment", "nl", "sp2", "videoScript",
               "nl", "sp2", "audioScript", "nl", "sp2", "modalScript">>]

DestructRule ==
    [id |-> "change1", marker |-> "trimStart, trimEnd",
     pat |-> <<"destruct">>,
     groups |-> <<>>,
     tpl |-> <<"destructTrim">>]

LogRule ==
    [id |-> "change2", marker |-> "trim:",
     pat |-> <<"logOpen", "\\s*", "logId", "\\s*", "logInput", "\\s*", "logFormat",
               "\\s*", "logType", "\\s*", "logClose">>,
     groups |-> <<>>,
     tpl |-> <<"logOpen", "nl", "sp6", "logId", "nl", "sp6", "logInput", "nl", "sp6",
               "logFormat", "nl", "sp6", "logType", "comma", "nl", "sp6", "logTrim",
               "nl", "sp4", "logClose">>]

\* The trim block put after the comment it was meant to precede.
TrimRuleAfterComment ==
    [id |-> "change3", marker |-> "Apply trim settings",
     pat |-> <<"cmdCtor", "\\s*", "applyConvComment">>,
     groups |-> << <<1, 1>>, <<3, 3>> >>,
     tpl |-> <<"\\1", "nl", "nl", "sp8", "\\2", "nl", "nl",
               "sp8", "trimComment", "nl",
               "sp8", "trimIf", "nl",
               "sp10", "trimLog", "nl",
               "sp10", "trimSsComment", "nl",
               "sp10", "trimSetStart", "nl",
               "sp10", "trimDuration", "nl",
               "sp8", "trimEndIf">>]

TrimRule ==
    [id |-> "change3", marker |-> "Apply trim settings",
     pat |-> <<"cmdCtor", "\\s*", "applyConvComment">>,
     groups |-> << <<1, 1>>, <<3, 3>> >>,
     tpl |-> <<"\\1", "nl", "nl",
               "sp8", "trimComment", "nl",
               "sp8", "trimIf", "nl",
               "sp10", "trimLog", "nl",
               "sp10", "trimSsComment", "nl",
               "sp10", "trimSetStart", "nl",
               "sp10", "trimDuration", "nl",
               "sp8", "trimEndIf", "nl", "nl",
               "sp8", "\\2">>]

HtmlRules == <<CssRule, ScriptsRule>>
FfmpegRules == <<DestructRule, LogRule, TrimRule>>

\* A rule applied without looking for its marker.
ApplyRuleUnguarded(rule, c) ==
    [content |-> ReSub(rule.pat, rule.groups, rule.tpl, c), modified |-> TRUE]

\* if marker not in content: content = re.sub(...); modified = True
ApplyRule(rule, c) ==
    IF ~In(rule.marker, c)
    THEN [content |-> ReSub(rule.pat, rule.groups, rule.tpl, c), modified |-> TRUE]
    ELSE [content |-> c, modified |-> FALSE]

----------------------------------------------------------------------------
(* The files the tool may find on disk. *)

\* Line endings a file may use: LF, CRLF, CR.
Eols == {<<"nl">>, <<"cr", "nl">>, <<"cr">>}

HtmlText(eol, cssAnchor, scriptAnchor) ==
    <<"htmlHead">> \o eol \o <<"sp2", "ffComment">> \o eol \o <<"sp2", cssAnchor>> \o eol
    \o <<"sp2", scriptAnchor>> \o eol \o <<"sp2", "ffmScript">> \o eol

FfmpegText(eol, destruct, logType, convComment) ==
    <<"fnHead">> \o eol \o <<"sp4", destruct>> \o eol
    \o <<"sp4", "logOpen">> \o eol \o <<"sp6", "logId">> \o eol \o <<"sp6", "logInput">> \o eol
    \o <<"sp6", "logFormat">> \o eol \o <<"sp6", logType>> \o eol \o <<"sp4", "logClose">> \o eol
    \o <<"sp8", "cmdCtor">> \o eol \o eol \o <<"sp8", convComment>> \o eol
    \o <<"sp8", "convCode">> \o eol

\* The text with the rules of `done` already put in by an earlier edit.
RECURSIVE Earlier(_, _, _, _)
Earlier(rules, done, c, k) ==
    IF k > Len(rules) THEN c
    ELSE Earlier(rules, done,
                 IF rules[k].id \in done
                 THEN ReSub(rules[k].pat, rules[k].groups, rules[k].tpl, c) ELSE c,
                 k + 1)

HtmlFiles(eol) ==
    { Earlier(HtmlRules, done, HtmlText(eol, a, s), 1) :
        done \in SUBSET {"css", "scripts"},
        a \in {"ffLink", "ffLinkV2"}, s \in {"tabScript", "tabScriptV6"} }
    \cup { HtmlText(eol, "ffLinkV2", "tabScript") \o <<"trimCssNote">> \o eol,
           HtmlText(eol, "ffLink", "tabScriptV6") \o <<"videoNote">> \o eol,
           HtmlText(eol, "ffLink", "tabScript") \o HtmlText(eol, "ffLink", "tabScript") }

FfmpegFiles(eol) ==
    { Earlier(FfmpegRules, done, FfmpegText(eol, d, l, c), 1) :
        done \in SUBSET {"change1", "change2", "change3"},
        d \in {"destruct", "destructV2"}, l \in {"logType", "logTypeV2"},
        c \in {"applyConvComment", "applyConvV2"} }

----------------------------------------------------------------------------
(* The process *)

Snapshot == [html |-> htmlFile, ffmpeg |-> ffmpegFile, status |-> exitStatus, io |-> io]

Init ==
    /\ baseExists \in BOOLEAN
    /\ \E eol \in Eols : htmlFile \in HtmlFiles(eol) /\ ffmpegFile \in FfmpegFiles(eol)
    /\ pc = "start"
    /\ content = <<>>
    /\ modified = FALSE
    /\ html_modified = FALSE
    /\ ffmpeg_modified = FALSE
    /\ exitStatus = -1
    /\ output = "none"
    /\ io = <<>>
    /\ applied = {}
    /\ hist = << [html |-> htmlFile, ffmpeg |-> ffmpegFile, status |-> -1, io |-> <<>>] >>

\* main without the os.path.exists test.
StartUnchecked ==
    /\ pc = "start"
    /\ pc' = "html_read"
    /\ UNCHANGED <<baseExists, htmlFile, ffmpegFile, content, modified, html_modified,
                   ffmpeg_modified, exitStatus, output, io, applied, hist>>

\* main: if not os.path.exists(base_dir): print ERROR; sys.exit(1)
Start ==
    /\ pc = "start"
    /\ IF ~baseExists
       THEN pc' = "exited" /\ exitStatus' = 1 /\ output' = "dir_not_found"
       ELSE pc' = "html_read" /\ UNCHANGED <<exitStatus, output>>
    /\ UNCHANGED <<baseExists, htmlFile, ffmpegFile, content, modified, html_modified,
                   ffmpeg_modified, io, applied, hist>>

\* content = read_file(index_path); modified = False
HtmlRead ==
    /\ pc = "html_read"
    /\ content' = read_file(htmlFile)
    /\ modified' = FALSE
    /\ io' = Append(io, "read_html")
    /\ pc' = "html_css"
    /\ UNCHANGED <<baseExists, htmlFile, ffmpegFile, html_modified, ffmpeg_modified,
                   exitStatus, output, applied, hist>>

\* One guarded re.sub of a patcher.
RuleStep(rule, next) ==
    LET r == ApplyRule(rule, content)
    IN /\ content' = r.content
       /\ modified' = (modified \/ r.modified)
       /\ applied' = IF r.content # content THEN applied \cup {rule.id} ELSE applied
       /\ pc' = next
       /\ UNCHANGED <<baseExists, htmlFile, ffmpegFile, html_modified, ffmpeg_modified,
                      exitStatus, output, io, hist>>

HtmlCss == pc = "html_css" /\ RuleStep(CssRule, "html_scripts")

HtmlScripts == pc = "html_scripts" /\ RuleStep(ScriptsRule, "html_write")

\* update_index_html that writes the file whatever the flag says.
HtmlWriteAlways ==
    /\ pc = "html_write"
    /\ htmlFile' = write_file(content)
    /\ io' = Append(io, "write_html")
    /\ html_modified' = modified
    /\ pc' = "ffmpeg_read"
    /\ UNCHANGED <<baseExists, ffmpegFile, content, modified, ffmpeg_modified,
                   exitStatus, output, applied, hist>>

\* if modified: write_file(index_path, content); return modified
HtmlWrite ==
    /\ pc = "html_write"
    /\ IF modified
       THEN htmlFile' = write_file(content) /\ io' = Append(io, "write_html")
       ELSE UNCHANGED <<htmlFile, io>>
    /\ html_modified' = modified
    /\ pc' = "ffmpeg_read"
    /\ UNCHANGED <<baseExists, ffmpegFile, content, modified, ffmpeg_modified,
                   exitStatus, output, applied, hist>>

\* content = read_file(ffmpeg_path); modified = False
FfmpegRead ==
    /\ pc = "ffmpeg_read"
    /\ content' = read_file(ffmpegFile)
    /\ modified' = FALSE
    /\ io' = Append(io, "read_ffmpeg")
    /\ pc' = "change1"
    /\ UNCHANGED <<baseExists, htmlFile, ffmpegFile, html_modified, ffmpeg_modified,
                   exitStatus, output, applied, hist>>

Change1 == pc = "change1" /\ RuleStep(DestructRule, "change2")

Change2 == pc = "change2" /\ RuleStep(LogRule, "change3")

Change3 == pc = "change3" /\ RuleStep(TrimRule, "ffmpeg_write")

\* if modified: write_file(ffmpeg_path, content); return modified
FfmpegWrite ==
    /\ pc = "ffmpeg_write"
    /\ IF modified
       THEN ffmpegFile' = write_file(content) /\ io' = Append(io, "write_ffmpeg")
       ELSE UNCHANGED <<ffmpegFile, io>>
    /\ ffmpeg_modified' = modified
    /\ pc' = "summary"
    /\ UNCHANGED <<baseExists, htmlFile, content, modified, html_modified,
                   exitStatus, output, applied, hist>>

\* main: the summary banner, the manual-step notice, normal exit.
Summary ==
    /\ pc = "summary"
    /\ output' = IF html_modified \/ ffmpeg_modified THEN "applied" ELSE "already"
    /\ exitStatus' = 0
    /\ pc' = "exited"
    /\ UNCHANGED <<baseExists, htmlFile, ffmpegFile, content, modified, html_modified,
                   ffmpeg_modified, io, applied, hist>>

\* Where open() may raise: either read, and either write that is attempted.
Raising ==
    {"html_read", "ffmpeg_read"} \cup (IF modified THEN {"html_write", "ffmpeg_write"} ELSE {})

\* An except clause that reports the error and exits normally.
IoErrorExitZero ==
    /\ pc \in Raising
    /\ io' = Append(io, "error")
    /\ output' = "error"
    /\ exitStatus' = 0
    /\ pc' = "exited"
    /\ UNCHANGED <<baseExists, htmlFile, ffmpegFile, content, modified, html_modified,
                   ffmpeg_modified, applied, hist>>

\* open() raises; except Exception as e: print ERROR; sys.exit(1)
IoError ==
    /\ pc \in Raising
    /\ io' = Append(io, "error")
    /\ output' = "error"
    /\ exitStatus' = 1
    /\ pc' = "exited"
    /\ UNCHANGED <<baseExists, htmlFile, ffmpegFile, content, modified, html_modified,
                   ffmpeg_modified, applied, hist>>

\* The tool is run again on the files the run before left.
NextRun ==
    /\ pc = "exited"
    /\ Len(hist) < MaxRuns
    /\ hist' = Append(hist, Snapshot)
    /\ pc' = "start"
    /\ content' = <<>>
    /\ modified' = FALSE
    /\ html_modified' = FALSE
    /\ ffmpeg_modified' = FALSE
    /\ exitStatus' = -1
    /\ output' = "none"
    /\ io' = <<>>
    /\ applied' = {}
    /\ UNCHANGED <<baseExists, htmlFile, ffmpegFile>>

Next ==
    \/ Start
    \/ HtmlRead
    \/ HtmlCss
    \/ HtmlScripts
    \/ HtmlWrite
    \/ FfmpegRead
    \/ Change1
    \/ Change2
    \/ Change3
    \/ FfmpegWrite
    \/ Summary
    \/ IoError
    \/ NextRun

Spec == Init /\ [][Next]_vars

----------------------------------------------------------------------------
(* Vocabulary of the properties *)

\* The disk as the running invocation found it.
AtStart == hist[Len(hist)]

Range(c) == {c[i] : i \in 1..Len(c)}
Positions(c, toks) == {i \in 1..Len(c) : c[i] \in toks}

HtmlIds == {"css", "scripts"}
FfmpegIds == {"change1", "change2", "change3"}
RuleSet == {CssRule, ScriptsRule, DestructRule, LogRule, TrimRule}

\* update_index_html has returned to main.
HtmlReturned ==
    \/ pc \in {"ffmpeg_read", "change1", "change2", "change3", "ffmpeg_write", "summary"}
    \/ pc = "exited" /\ exitStatus = 0

\* update_ffmpeg_handler has returned to main.
FfmpegReturned == pc = "summary" \/ (pc = "exited" /\ exitStatus = 0)

\* The rule the process is about to run, and the step that follows it.
RuleAt(p) ==
    CASE p = "html_css" -> CssRule
      [] p = "html_scripts" -> ScriptsRule
      [] p = "change1" -> DestructRule
      [] p = "change2" -> LogRule
      [] p = "change3" -> TrimRule

StepAfter(p) ==
    CASE p = "html_css" -> "html_scripts"
      [] p = "html_scripts" -> "html_write"
      [] p = "change1" -> "change2"
      [] p = "change2" -> "change3"
      [] p = "change3" -> "ffmpeg_write"

RulePcs == {"html_css", "html_scripts", "change1", "change2", "change3"}

\* The token by which the text a rule puts in is recognised.
Inserted(id) ==
    CASE id = "css" -> "trimCssLink"
      [] id = "scripts" -> "videoScript"
      [] id = "change1" -> "destructTrim"
      [] id = "change2" -> "logTrim"
      [] id = "change3" -> "trimIf"

\* What one whole, undisturbed run of a patcher leaves in its file.
RECURSIVE RunRules(_, _, _)
RunRules(rules, st, k) ==
    IF k > Len(rules) THEN st
    ELSE LET r == ApplyRule(rules[k], st.content)
         IN RunRules(rules, [content |-> r.content, modified |-> st.modified \/ r.modified],
                     k + 1)

RunPatcher(rules, f) ==
    LET st == RunRules(rules, [content |-> read_file(f), modified |-> FALSE], 1)
    IN IF st.modified THEN write_file(st.content) ELSE f

\* The lines of the trim block that change 3 puts in.
TrimBlock ==
    {"trimComment", "trimIf", "trimLog", "trimSsComment", "trimSetStart", "trimDuration",
     "trimEndIf"}

\* A run that wrote index.html and then failed to open ffmpeg-handler.js.
AbortedBetween == <<"read_html", "write_html", "error">>

----------------------------------------------------------------------------
(* Properties *)

\* C1: when the tool runs twice in a row without error, the second run leaves
\* both files exactly as the first run left them.
C1_Idempotent ==
    (Len(hist) >= 2 /\ AtStart.status = 0 /\ pc = "exited" /\ exitStatus = 0)
        => (htmlFile = AtStart.html /\ ffmpegFile = AtStart.ffmpeg)

C1_Witness ==
    /\ Len(hist) = 2 /\ AtStart.status = 0 /\ pc = "exited" /\ exitStatus = 0
    /\ hist[2].html # hist[1].html
    /\ hist[2].ffmpeg # hist[1].ffmpeg

\* C2: when every handler transformation is either already in the file or has
\* its anchor intact, one run of update_ffmpeg_handler applies exactly the
\* missing ones and the file then holds all three.
C2_AppliesMissingSubset ==
    (FfmpegReturned /\
     \A id \in FfmpegIds :
        \E r \in RuleSet : r.id = id /\
            (Inserted(id) \in Range(AtStart.ffmpeg) \/ Matches(r.pat, AtStart.ffmpeg)))
        => /\ \A id \in FfmpegIds : Inserted(id) \in Range(ffmpegFile)
           /\ applied \cap FfmpegIds = {id \in FfmpegIds : Inserted(id) \notin Range(AtStart.ffmpeg)}

\* C3: a patcher's flag is true exactly when one of its rules changed the
\* content, and the file is written exactly when the flag is true.
C3_FlagIffChanged ==
    /\ HtmlReturned =>
          /\ html_modified <=> (applied \cap HtmlIds # {})
          /\ ("write_html" \in Range(io)) <=> html_modified
    /\ FfmpegReturned =>
          /\ ffmpeg_modified <=> (applied \cap FfmpegIds # {})
          /\ ("write_ffmpeg" \in Range(io)) <=> ffmpeg_modified

\* C4: a file that already holds every marker of its patcher is not written,
\* keeps its content and is reported unmodified; when that is so for both
\* files the summary is "Already Integrated".
C4_AllMarkersNoWrite ==
    LET htmlHas == \A r \in {CssRule, ScriptsRule} : In(r.marker, AtStart.html)
        ffmpegHas == \A r \in {DestructRule, LogRule, TrimRule} : In(r.marker, AtStart.ffmpeg)
    IN /\ htmlHas =>
            /\ htmlFile = AtStart.html
            /\ "write_html" \notin Range(io)
            /\ HtmlReturned => ~html_modified
       /\ ffmpegHas =>
            /\ ffmpegFile = AtStart.ffmpeg
            /\ "write_ffmpeg" \notin Range(io)
            /\ FfmpegReturned => ~ffmpeg_modified
       /\ (htmlHas /\ ffmpegHas /\ pc = "exited" /\ exitStatus = 0) => output = "already"

C4_Witness ==
    /\ pc = "exited" /\ exitStatus = 0 /\ output = "already"
    /\ Len(hist) = 1
    /\ \A r \in {CssRule, ScriptsRule} : In(r.marker, AtStart.html)
    /\ \A r \in {DestructRule, LogRule, TrimRule} : In(r.marker, AtStart.ffmpeg)
    /\ "cr" \in Range(htmlFile)

\* C5: a rule whose marker is absent and whose anchor does not match leaves the
\* content as it was, raises nothing, and the process goes on to the next step.
C5_NoMatchIsNoOp ==
    [][ \A p \in RulePcs :
          (pc = p /\ ~In(RuleAt(p).marker, content) /\ ~Matches(RuleAt(p).pat, content))
             => (content' = content /\ pc' = StepAfter(p) /\ exitStatus' = -1) ]_vars

C5_Witness ==
    /\ pc = "exited" /\ exitStatus = 0 /\ applied = {}
    /\ html_modified /\ ffmpeg_modified
    /\ \A r \in {CssRule, ScriptsRule} : ~In(r.marker, htmlFile)
    /\ \A r \in {DestructRule, LogRule, TrimRule} : ~In(r.marker, ffmpegFile)

\* C6: with the base directory missing the process exits with status 1 and the
\* directory error, having read and written neither file.
C6_MissingBaseDir ==
    ~baseExists =>
        /\ pc \in {"start", "exited"}
        /\ io = <<>>
        /\ htmlFile = AtStart.html /\ ffmpegFile = AtStart.ffmpeg
        /\ pc = "exited" => (exitStatus = 1 /\ output = "dir_not_found")

C6_Witness == ~baseExists /\ pc = "exited" /\ exitStatus = 1

\* C7: for an index.html holding each anchor once and no marker, after
\* update_index_html the file is the original text with the stylesheet block
\* right after the anchor link and the three script tags, in order, right
\* after the anchor script tag, each once, and nothing else changed.
C7_HtmlInsertions ==
    (/\ HtmlReturned
     /\ Cardinality(Positions(AtStart.html, {"ffLink"})) = 1
     /\ Cardinality(Positions(AtStart.html, {"tabScript"})) = 1
     /\ Matches(CssRule.pat, AtStart.html)
     /\ ~In(CssRule.marker, AtStart.html) /\ ~In(ScriptsRule.marker, AtStart.html))
        => /\ htmlFile = ReSub(ScriptsRule.pat, ScriptsRule.groups, ScriptsRule.tpl,
                               ReSub(CssRule.pat, CssRule.groups, CssRule.tpl, AtStart.html))
           /\ \A t \in {"trimCssLink", "videoScript", "audioScript", "modalScript"} :
                 Cardinality(Positions(htmlFile, {t})) = 1

\* The case of C8: every handler anchor intact, no marker in the file.
C8_Pre ==
    /\ \A r \in {DestructRule, LogRule, TrimRule} :
          Matches(r.pat, AtStart.ffmpeg) /\ ~In(r.marker, AtStart.ffmpeg)

\* C8: for a handler file with the three anchors intact and no marker, one run
\* applies all three transformations and the trim block lies after the command
\* construction and before the conversion-settings comment.
C8_AllThreeApplied ==
    (FfmpegReturned /\ C8_Pre)
        => /\ FfmpegIds \subseteq applied
           /\ {"destructTrim", "logTrim"} \cup TrimBlock \subseteq Range(ffmpegFile)
           /\ "destruct" \notin Range(ffmpegFile)
           /\ \A p \in Positions(ffmpegFile, TrimBlock) :
                 /\ \E i \in Positions(ffmpegFile, {"cmdCtor"}) : i < p
                 /\ \E j \in Positions(ffmpegFile, {"applyConvComment"}) : p < j
                 /\ \A i \in Positions(ffmpegFile, {"cmdCtor"}) : i < p
                 /\ \A j \in Positions(ffmpegFile, {"applyConvComment"}) : p < j

C8_Witness ==
    /\ pc = "summary" /\ C8_Pre /\ FfmpegIds \subseteq applied
    /\ "write_ffmpeg" \in Range(io)

\* C9: index.html is read and written before ffmpeg-handler.js is read; a run
\* that fails between the two writes exits with status 1, leaves index.html
\* patched and ffmpeg-handler.js untouched, and an error-free run after it
\* ends with both files as one undisturbed run would have left them.
C9_PartialRunRecovers ==
    /\ \A i, j \in DOMAIN io :
          (io[i] \in {"read_html", "write_html"} /\ io[j] \in {"read_ffmpeg", "write_ffmpeg"})
             => i < j
    /\ "read_ffmpeg" \in Range(io) =>
          ("read_html" \in Range(io) /\ (html_modified <=> "write_html" \in Range(io)))
    /\ (pc = "exited" /\ io = AbortedBetween) =>
          /\ exitStatus = 1
          /\ htmlFile = RunPatcher(HtmlRules, AtStart.html)
          /\ ffmpegFile = AtStart.ffmpeg
    /\ (Len(hist) >= 2 /\ AtStart.io = AbortedBetween /\ pc = "exited" /\ exitStatus = 0) =>
          /\ htmlFile = RunPatcher(HtmlRules, hist[Len(hist) - 1].html)
          /\ ffmpegFile = RunPatcher(FfmpegRules, hist[Len(hist) - 1].ffmpeg)

C9_Witness ==
    /\ Len(hist) = 2 /\ AtStart.io = AbortedBetween /\ AtStart.status = 1
    /\ pc = "exited" /\ exitStatus = 0
    /\ hist[2].html # hist[1].html
    /\ hist[2].ffmpeg = hist[1].ffmpeg
    /\ ffmpegFile # hist[1].ffmpeg

\* C10: reading a file and writing the string back unchanged leaves the file
\* as it was, whatever its line endings.
C10_LineEndingsPreserved ==
    /\ (HtmlReturned /\ "write_html" \in Range(io) /\ applied \cap HtmlIds = {})
          => htmlFile = AtStart.html
    /\ (FfmpegReturned /\ "write_ffmpeg" \in Range(io) /\ applied \cap FfmpegIds = {})
          => ffmpegFile = AtStart.ffmpeg

====
